---- MODULE Spec2Model ----
(***************************************************************************)
(* The signature trie of scripts/hiddenapi/signature_trie.py.              *)
(*                                                                         *)
(* A Python str is a sequence of one-character strings, so that            *)
(* removeprefix, split and startswith are computed as Python computes      *)
(* them.  A dict is the sequence of its items in insertion order (the      *)
(* order Python iterates it in).  A node is a record tagged with its       *)
(* class: an InteriorNode has the attribute nodes, a Leaf has the          *)
(* attribute value, and reading nodes from a Leaf is the AttributeError    *)
(* Python raises.                                                          *)
(***************************************************************************)
EXTENDS Integers, Sequences, FiniteSets, Bags, TLC

VARIABLES root,      \* the InteriorNode signature_trie() returned
          inserted,  \* history: the <<signature, value>> of every add that returned
          last       \* the last call made on the trie and how it ended; again
                     \* says that the call before it was the same query

vars == <<root, inserted, last>>

\* Bound of the model: the number of signatures the trie comes to hold.
MaxEntries == 2

-----------------------------------------------------------------------------
\* Python str methods used by the source.

startswith(text, prefix) ==
    /\ Len(text) >= Len(prefix)
    /\ SubSeq(text, 1, Len(prefix)) = prefix

removeprefix(text, prefix) ==
    IF startswith(text, prefix)
    THEN SubSeq(text, Len(prefix) + 1, Len(text))
    ELSE text

\* str.find, 1-based; 0 when sep does not occur in text.
find(text, sep) ==
    LET hits == {i \in 1..(Len(text) - Len(sep) + 1) :
                    SubSeq(text, i, i + Len(sep) - 1) = sep}
    IN IF hits = {} THEN 0 ELSE CHOOSE i \in hits : \A j \in hits : i <= j

\* str.split(sep): every occurrence of sep splits, left to right.
RECURSIVE split(_, _)
split(text, sep) ==
    LET i == find(text, sep)
    IN IF i = 0
       THEN <<text>>
       ELSE <<SubSeq(text, 1, i - 1)>>
            \o split(SubSeq(text, i + Len(sep), Len(text)), sep)

\* The string literals of the source.
PackagePrefix == <<"p", "a", "c", "k", "a", "g", "e", ":">>
ClassPrefix == <<"c", "l", "a", "s", "s", ":">>
MemberPrefix == <<"m", "e", "m", "b", "e", "r", ":">>
Star == <<"*">>
StarStar == <<"*", "*">>
MemberSeparator == <<";", "-", ">">>
PackageSeparator == <<"/">>
InnerSeparator == <<"$">>
LeadingL == <<"L">>

\* [prefix + x for x in xs]
prefixed(prefix, xs) == [i \in 1..Len(xs) |-> prefix \o xs[i]]

-----------------------------------------------------------------------------
\* How a call ends: it returns, or it raises one of these.
Returned == "returned"
WildcardWithMember == "Exception: Invalid signature: contains wildcard and member signature"
NotAMember == "Exception: Invalid signature: does not identify a specific member"
Duplicate == "Exception: Duplicate signature"
AttributeError == "AttributeError: 'Leaf' object has no attribute 'nodes'"

\* InteriorNode.signature_to_elements
signature_to_elements(signature) ==
    LET text == removeprefix(signature, LeadingL)
        parts == split(text, MemberSeparator)
        member == Tail(parts)
        elements == split(parts[1], PackageSeparator)
        packages == SubSeq(elements, 1, Len(elements) - 1)
        class_name == elements[Len(elements)]
    IN IF class_name \in {Star, StarStar}
       THEN IF Len(member) # 0
            THEN [raised |-> WildcardWithMember, elements |-> <<>>]
            ELSE [raised |-> Returned,
                  elements |-> prefixed(PackagePrefix, packages) \o <<class_name>>]
       ELSE LET classes == split(class_name, InnerSeparator)
            IN [raised |-> Returned,
                elements |-> prefixed(PackagePrefix, packages)
                             \o prefixed(ClassPrefix, classes)
                             \o prefixed(MemberPrefix, member)]

-----------------------------------------------------------------------------
\* The two node classes.
InteriorNode(nodes) == [kind |-> "InteriorNode", nodes |-> nodes]
Leaf(value) == [kind |-> "Leaf", value |-> value]

\* signature_trie()
signature_trie == InteriorNode(<<>>)

\* dict: key in d
contains(d, key) == \E i \in 1..Len(d) : d[i].key = key

\* dict: d[key], for a key in d
getitem(d, key) == d[CHOOSE i \in 1..Len(d) : d[i].key = key].node

\* dict: d[key] = node (a new key goes last, an old key keeps its place)
setitem(d, key, node) ==
    IF contains(d, key)
    THEN [i \in 1..Len(d) |-> IF d[i].key = key
                              THEN [key |-> key, node |-> node]
                              ELSE d[i]]
    ELSE Append(d, [key |-> key, node |-> node])

-----------------------------------------------------------------------------
\* InteriorNode.add, from the node the walk stands on: path is what is left
\* of elements[:-1].  The result is that node as the call leaves it and how
\* the call ends; nodes the walk created stay when the call raises.
RECURSIVE add_from(_, _, _, _)

\* add without the duplicate check: the Leaf of a signature already there is
\* replaced.
add_from_overwrites(node, path, last_element, value) ==
    IF path = <<>>
    THEN IF ~startswith(last_element, MemberPrefix)
         THEN [node |-> node, raised |-> NotAMember]
         ELSE IF node.kind = "Leaf"
         THEN [node |-> node, raised |-> AttributeError]
         ELSE [node |-> InteriorNode(setitem(node.nodes, last_element, Leaf(value))),
               raised |-> Returned]
    ELSE IF node.kind = "Leaf"
         THEN [node |-> node, raised |-> AttributeError]
         ELSE LET element == Head(path)
                  next_node == IF contains(node.nodes, element)
                               THEN getitem(node.nodes, element)
                               ELSE InteriorNode(<<>>)
                  below == add_from(next_node, Tail(path), last_element, value)
              IN [node |-> InteriorNode(setitem(node.nodes, element, below.node)),
                  raised |-> below.raised]

\* add without the lookup of the child: every element of the walk gets a new
\* InteriorNode, which replaces the one that was there.
add_from_always_creates(node, path, last_element, value) ==
    IF path = <<>>
    THEN IF ~startswith(last_element, MemberPrefix)
         THEN [node |-> node, raised |-> NotAMember]
         ELSE IF node.kind = "Leaf"
         THEN [node |-> node, raised |-> AttributeError]
         ELSE IF contains(node.nodes, last_element)
         THEN [node |-> node, raised |-> Duplicate]
         ELSE [node |-> InteriorNode(setitem(node.nodes, last_element, Leaf(value))),
               raised |-> Returned]
    ELSE IF node.kind = "Leaf"
         THEN [node |-> node, raised |-> AttributeError]
         ELSE LET element == Head(path)
                  below == add_from(InteriorNode(<<>>), Tail(path), last_element, value)
              IN [node |-> InteriorNode(setitem(node.nodes, element, below.node)),
                  raised |-> below.raised]

add_from(node, path, last_element, value) ==
    IF path = <<>>
    THEN IF ~startswith(last_element, MemberPrefix)
         THEN [node |-> node, raised |-> NotAMember]
         ELSE IF node.kind = "Leaf"
         THEN [node |-> node, raised |-> AttributeError]
         ELSE IF contains(node.nodes, last_element)
         THEN [node |-> node, raised |-> Duplicate]
         ELSE [node |-> InteriorNode(setitem(node.nodes, last_element, Leaf(value))),
               raised |-> Returned]
    ELSE IF node.kind = "Leaf"
         THEN [node |-> node, raised |-> AttributeError]
         ELSE LET element == Head(path)
                  next_node == IF contains(node.nodes, element)
                               THEN getitem(node.nodes, element)
                               ELSE InteriorNode(<<>>)
                  below == add_from(next_node, Tail(path), last_element, value)
              IN [node |-> InteriorNode(setitem(node.nodes, element, below.node)),
                  raised |-> below.raised]

\* InteriorNode.add
add(self, signature, value) ==
    LET parsed == signature_to_elements(signature)
        elements == parsed.elements
    IN IF parsed.raised # Returned
       THEN [node |-> self, raised |-> parsed.raised]
       ELSE add_from(self, SubSeq(elements, 1, Len(elements) - 1),
                     elements[Len(elements)], value)

-----------------------------------------------------------------------------
\* The two selectors get_matching_rows builds.
SelectAll == "lambda x: True"
SelectNotPackage == "lambda x: not x.startswith('package:')"

\* A selector that lets every key through.
selector_call_any(selector, key) == TRUE

\* selector(key)
selector_call(selector, key) ==
    IF selector = SelectNotPackage
    THEN ~startswith(key, PackagePrefix)
    ELSE TRUE

\* InteriorNode.append_values and Leaf.append_values; append_items is the
\* for loop over self.nodes.items(), from item i on.
RECURSIVE append_values(_, _, _)
RECURSIVE append_items(_, _, _, _)
append_items(items, i, values, selector) ==
    IF i > Len(items)
    THEN values
    ELSE append_items(items, i + 1,
                      IF selector_call(selector, items[i].key)
                      THEN append_values(items[i].node, values, SelectAll)
                      ELSE values,
                      selector)

\* append_values that takes the values of the node's own Leaf children and
\* does not go into the InteriorNodes below it.
append_values_direct(node, values, selector) ==
    IF node.kind = "Leaf"
    THEN Append(values, <<node.value>>)
    ELSE LET leaves == SelectSeq(node.nodes,
                                 LAMBDA item : /\ selector_call(selector, item.key)
                                               /\ item.node.kind = "Leaf")
         IN values \o [i \in 1..Len(leaves) |-> <<leaves[i].node.value>>]

append_values(node, values, selector) ==
    IF node.kind = "Leaf"
    THEN Append(values, <<node.value>>)
    ELSE append_items(node.nodes, 1, values, selector)

\* InteriorNode.values and Leaf.values
values(node, selector) ==
    IF node.kind = "Leaf"
    THEN <<(<<node.value>>)>>
    ELSE append_values(node, <<>>, selector)

\* chain.from_iterable
RECURSIVE chain_from_iterable(_)
chain_from_iterable(lists) ==
    IF lists = <<>>
    THEN <<>>
    ELSE Head(lists) \o chain_from_iterable(Tail(lists))

\* The for loop of get_matching_rows: the node the elements lead to.
RECURSIVE walk(_, _)
walk(node, elements) ==
    IF elements = <<>>
    THEN [found |-> TRUE, node |-> node, raised |-> Returned]
    ELSE IF node.kind = "Leaf"
    THEN [found |-> FALSE, node |-> node, raised |-> AttributeError]
    ELSE IF contains(node.nodes, Head(elements))
    THEN walk(getitem(node.nodes, Head(elements)), Tail(elements))
    ELSE [found |-> FALSE, node |-> node, raised |-> Returned]

\* get_matching_rows that drops the last element of every pattern, wildcard
\* or not.
get_matching_rows_trims(self, pattern) ==
    LET parsed == signature_to_elements(pattern)
    IN IF parsed.raised # Returned
       THEN [rows |-> <<>>, raised |-> parsed.raised]
       ELSE LET all == parsed.elements
                last_element == all[Len(all)]
                elements == SubSeq(all, 1, Len(all) - 1)
                selector == IF last_element = Star
                            THEN SelectNotPackage
                            ELSE SelectAll
                reached == walk(self, elements)
            IN IF reached.raised # Returned
               THEN [rows |-> <<>>, raised |-> reached.raised]
               ELSE IF ~reached.found
               THEN [rows |-> <<>>, raised |-> Returned]
               ELSE [rows |-> chain_from_iterable(values(reached.node, selector)),
                     raised |-> Returned]

\* InteriorNode.get_matching_rows
get_matching_rows(self, pattern) ==
    LET parsed == signature_to_elements(pattern)
    IN IF parsed.raised # Returned
       THEN [rows |-> <<>>, raised |-> parsed.raised]
       ELSE LET all == parsed.elements
                last_element == all[Len(all)]
                wildcard == last_element \in {Star, StarStar}
                elements == IF wildcard THEN SubSeq(all, 1, Len(all) - 1) ELSE all
                selector == IF wildcard /\ last_element = Star
                            THEN SelectNotPackage
                            ELSE SelectAll
                reached == walk(self, elements)
            IN IF reached.raised # Returned
               THEN [rows |-> <<>>, raised |-> reached.raised]
               ELSE IF ~reached.found
               THEN [rows |-> <<>>, raised |-> Returned]
               ELSE [rows |-> chain_from_iterable(values(reached.node, selector)),
                     raised |-> Returned]

-----------------------------------------------------------------------------
\* The inputs: signatures and patterns, as the callers write them.

\* La/B;->m
Sig_aB_m == <<"L", "a", "/", "B", ";", "-", ">", "m">>
\* La/B;->n
Sig_aB_n == <<"L", "a", "/", "B", ";", "-", ">", "n">>
\* La/c/D;->m
Sig_acD_m == <<"L", "a", "/", "c", "/", "D", ";", "-", ">", "m">>
\* La/B$C;->m
Sig_aBC_m == <<"L", "a", "/", "B", "$", "C", ";", "-", ">", "m">>
\* a/B;->m  (no leading L: the elements of La/B;->m)
Sig_noL_aB_m == <<"a", "/", "B", ";", "-", ">", "m">>
\* La/B;->m;->n  (the separator twice)
Sig_aB_m_n == <<"L", "a", "/", "B", ";", "-", ">", "m", ";", "-", ">", "n">>
\* La/B
Pat_aB == <<"L", "a", "/", "B">>
\* La/B$C
Pat_aBC == <<"L", "a", "/", "B", "$", "C">>
\* La/c/D
Pat_acD == <<"L", "a", "/", "c", "/", "D">>
\* La
Pat_a == <<"L", "a">>
\* La/c
Pat_ac == <<"L", "a", "/", "c">>
\* Lx
Pat_x == <<"L", "x">>
\* Lx/Y
Pat_xY == <<"L", "x", "/", "Y">>
\* La/*
Pat_a_star == Pat_a \o PackageSeparator \o Star
\* La/*;->m
Pat_a_star_m == Pat_a_star \o MemberSeparator \o <<"m">>

Values == {"v1", "v2"}

Signatures ==
    {Sig_aB_m, Sig_aB_n, Sig_acD_m, Sig_aBC_m, Sig_noL_aB_m, Sig_aB_m_n,
     Pat_aB, Pat_a_star_m}

\* The package paths the wildcard patterns are built on.
PackagePaths == {Pat_a, Pat_ac, Pat_x}

WildcardPattern(P, wildcard) == P \o PackageSeparator \o wildcard

\* Patterns that name a class path, with no member and no wildcard.
ClassPatterns == {Pat_aB, Pat_aBC, Pat_acD, Pat_xY, Pat_a, Pat_ac}

Patterns ==
    {Sig_aB_m, Sig_aBC_m, Sig_aB_m_n, Pat_a_star_m}
    \cup ClassPatterns
    \cup PackagePaths
    \cup {WildcardPattern(P, w) : P \in PackagePaths, w \in {Star, StarStar}}

-----------------------------------------------------------------------------
Init ==
    /\ root = signature_trie
    /\ inserted = {}
    /\ last = [op |-> "signature_trie", arg |-> <<>>, value |-> "",
               raised |-> Returned, rows |-> <<>>, again |-> FALSE]

\* A call of root.add(signature, value).
Add(signature, value) ==
    LET r == add(root, signature, value)
    IN /\ r.raised = Returned => Cardinality(inserted) < MaxEntries
       /\ root' = r.node
       /\ inserted' = IF r.raised = Returned
                      THEN inserted \cup {<<signature, value>>}
                      ELSE inserted
       /\ last' = [op |-> "add", arg |-> signature, value |-> value,
                   raised |-> r.raised, rows |-> <<>>, again |-> FALSE]

\* A query whose walk creates the nodes it does not find, as the walk of add
\* does.
GetMatchingRows_creating(pattern) ==
    LET r == get_matching_rows(root, pattern)
        parsed == signature_to_elements(pattern)
    IN /\ last' = [op |-> "get_matching_rows", arg |-> pattern, value |-> "",
                   raised |-> r.raised, rows |-> r.rows,
                   again |-> (last.op = "get_matching_rows" /\ last.arg = pattern)]
       /\ root' = add_from(root, parsed.elements, <<>>, "").node
       /\ UNCHANGED inserted

\* A call of root.get_matching_rows(pattern), its result read to the end.
GetMatchingRows(pattern) ==
    LET r == get_matching_rows(root, pattern)
    IN /\ last' = [op |-> "get_matching_rows", arg |-> pattern, value |-> "",
                   raised |-> r.raised, rows |-> r.rows,
                   again |-> (last.op = "get_matching_rows" /\ last.arg = pattern)]
       /\ UNCHANGED <<root, inserted>>

Next ==
    \/ \E signature \in Signatures, value \in Values : Add(signature, value)
    \/ \E pattern \in Patterns : GetMatchingRows(pattern)

Spec == Init /\ [][Next]_vars

-----------------------------------------------------------------------------
\* What the properties are stated with.

\* The segment sequence a signature decomposes to.
Elements(signature) == signature_to_elements(signature).elements

\* The names of the segments of a signature that carry the given prefix.
Names(signature, prefix) ==
    LET tagged == SelectSeq(Elements(signature), LAMBDA e : startswith(e, prefix))
    IN [i \in 1..Len(tagged) |-> removeprefix(tagged[i], prefix)]

PackagesOf(signature) == Names(signature, PackagePrefix)
ClassesOf(signature) == Names(signature, ClassPrefix)
MembersOf(signature) == Names(signature, MemberPrefix)

\* The package names a package path P lists.
PathPackages(P) == split(removeprefix(P, LeadingL), PackageSeparator)

IsPrefix(p, q) == Len(p) <= Len(q) /\ SubSeq(q, 1, Len(p)) = p

\* The rows a query returned, as a bag.
RowsBag(rows) ==
    [v \in {rows[i] : i \in DOMAIN rows} |->
        Cardinality({i \in DOMAIN rows : rows[i] = v})]

\* The values of a set of inserted <<signature, value>>, as a bag: one
\* occurrence for each signature.
ValuesBag(entries) ==
    [v \in {e[2] : e \in entries} |-> Cardinality({e \in entries : e[2] = v})]

\* Every node of the trie below node, with the labels leading to it and the
\* label it is stored under.
RECURSIVE Below(_, _)
Below(node, path) ==
    IF node.kind = "Leaf"
    THEN {}
    ELSE UNION {{[path |-> Append(path, node.nodes[i].key),
                  key |-> node.nodes[i].key,
                  node |-> node.nodes[i].node]}
                \cup Below(node.nodes[i].node, Append(path, node.nodes[i].key))
                : i \in DOMAIN node.nodes}

\* The root-to-Leaf paths, one item for each Leaf, in the order of the dicts.
RECURSIVE LeafPaths(_, _)
RECURSIVE LeafPathsFrom(_, _, _)
LeafPathsFrom(node, path, i) ==
    IF i > Len(node.nodes)
    THEN <<>>
    ELSE LeafPaths(node.nodes[i].node, Append(path, node.nodes[i].key))
         \o LeafPathsFrom(node, path, i + 1)

LeafPaths(node, path) ==
    IF node.kind = "Leaf"
    THEN <<[path |-> path, value |-> node.value]>>
    ELSE LeafPathsFrom(node, path, 1)

IsQuery == last.op = "get_matching_rows"
IsAdd == last.op = "add"

-----------------------------------------------------------------------------
\* C1. Insert-then-exact-match: once add(s, v) has returned,
\* get_matching_rows(s) returns exactly the one value v, in every later state
\* of the trie, whatever adds and queries followed.
InsertThenExactMatch ==
    /\ \A e \in inserted :
          get_matching_rows(root, e[1]) = [rows |-> <<e[2]>>, raised |-> Returned]
    /\ \A e \in inserted :
          (IsQuery /\ last.arg = e[1]) =>
              (last.raised = Returned /\ last.rows = <<e[2]>>)

\* La/B;->m was added with v1 and La/B;->n with v2; the query of La/B;->m
\* returned v1 alone.
InsertThenExactMatchWitness ==
    /\ <<Sig_aB_m, "v1">> \in inserted
    /\ <<Sig_aB_n, "v2">> \in inserted
    /\ IsQuery /\ last.arg = Sig_aB_m /\ last.rows = <<"v1">>

\* C2. Wildcard matching: P/* returns the values of exactly the inserted
\* signatures whose package sequence is P, P/** those of exactly the inserted
\* signatures whose package sequence starts with P, each once.
WildcardMatching ==
    \A P \in PackagePaths :
        /\ (IsQuery /\ last.arg = WildcardPattern(P, Star)) =>
              /\ last.raised = Returned
              /\ RowsBag(last.rows)
                   = ValuesBag({e \in inserted : PackagesOf(e[1]) = PathPackages(P)})
        /\ (IsQuery /\ last.arg = WildcardPattern(P, StarStar)) =>
              /\ last.raised = Returned
              /\ RowsBag(last.rows)
                   = ValuesBag({e \in inserted :
                                   IsPrefix(PathPackages(P), PackagesOf(e[1]))})

\* The trie holds a member of a nested class of package a and a member of a
\* class of package a/c; La/* returned the first and not the second, and
\* La/** returns both.
WildcardMatchingWitness ==
    /\ inserted = {<<Sig_aBC_m, "v1">>, <<Sig_acD_m, "v2">>}
    /\ IsQuery /\ last.arg = WildcardPattern(Pat_a, Star)
    /\ last.rows = <<"v1">>
    /\ RowsBag(get_matching_rows(root, WildcardPattern(Pat_a, StarStar)).rows)
         = ("v1" :> 1) @@ ("v2" :> 1)

\* C3. Class-scope matching: a pattern that names a class path, with no
\* member and no wildcard, returns the values of exactly the inserted
\* signatures with the same package sequence whose class sequence starts with
\* the pattern's.
ClassScopeMatching ==
    \A pattern \in ClassPatterns :
        (IsQuery /\ last.arg = pattern) =>
            /\ last.raised = Returned
            /\ RowsBag(last.rows)
                 = ValuesBag({e \in inserted :
                                 /\ PackagesOf(e[1]) = PackagesOf(pattern)
                                 /\ IsPrefix(ClassesOf(pattern), ClassesOf(e[1]))})

\* The trie holds a member of a/B and a member of a/B$C; La/B returned both
\* and La/B$C returns the nested class's alone.
ClassScopeMatchingWitness ==
    /\ inserted = {<<Sig_aB_m, "v1">>, <<Sig_aBC_m, "v2">>}
    /\ IsQuery /\ last.arg = Pat_aB
    /\ RowsBag(last.rows) = ("v1" :> 1) @@ ("v2" :> 1)
    /\ get_matching_rows(root, Pat_aBC).rows = <<"v2">>

\* C4. match never fails: a query whose pattern does not combine a wildcard
\* with a member returns and raises nothing, and returns no rows when its
\* walk arrives at a Leaf with segments of the pattern left.
LeafBeforeEnd(pattern) ==
    \E e \in inserted :
        /\ Len(Elements(e[1])) < Len(Elements(pattern))
        /\ IsPrefix(Elements(e[1]), Elements(pattern))

MatchNeverFails ==
    (IsQuery /\ signature_to_elements(last.arg).raised # WildcardWithMember) =>
        /\ last.raised = Returned
        /\ LeafBeforeEnd(last.arg) => last.rows = <<>>

\* C5. Failed insertions never mutate the tree: an add that raises leaves the
\* whole tree, interior nodes included, as it was.
FailedAddKeepsTree ==
    [][(last'.op = "add" /\ last'.raised # Returned) => root' = root]_vars

\* C6. Duplicate rejection: once add(s, v1) has returned, an add of a
\* signature with the segment sequence of s raises the duplicate-signature
\* error and get_matching_rows(s) still returns v1 alone.
DuplicateRejection ==
    [][last'.op = "add" =>
          \A e \in inserted :
              Elements(last'.arg) = Elements(e[1]) =>
                  /\ last'.raised = Duplicate
                  /\ get_matching_rows(root', e[1])
                       = [rows |-> <<e[2]>>, raised |-> Returned]]_vars

\* La/B;->m holds v1; the add of a/B;->m (the same segments, written without
\* the leading L) with v2 raised the duplicate error.
DuplicateRejectionWitness ==
    /\ <<Sig_aB_m, "v1">> \in inserted
    /\ IsAdd /\ last.arg = Sig_noL_aB_m /\ last.value = "v2"
    /\ last.raised = Duplicate
    /\ get_matching_rows(root, Sig_aB_m).rows = <<"v1">>

\* C7. Plain package pattern: a pattern that names a package, with no
\* wildcard and no member, returns the values of all the members of all the
\* classes in that package and its sub-packages.
PlainPackagePattern ==
    \A P \in PackagePaths :
        (IsQuery /\ last.arg = P) =>
            /\ last.raised = Returned
            /\ RowsBag(last.rows)
                 = ValuesBag({e \in inserted :
                                 IsPrefix(PathPackages(P), PackagesOf(e[1]))})

\* C8. Idempotent lookup: a query changes no node of the trie, whether it
\* returns rows, returns none or raises, and the same query made again with
\* no add in between ends the same way with the same values.
IdempotentLookup ==
    [][last'.op = "get_matching_rows" =>
          /\ root' = root
          /\ last'.again =>
                /\ last'.raised = last.raised
                /\ RowsBag(last'.rows) = RowsBag(last.rows)]_vars

\* The same query was made twice in a row on a trie of two signatures and
\* returned rows.
IdempotentLookupWitness ==
    /\ IsQuery /\ last.again
    /\ Cardinality(inserted) = 2
    /\ Len(last.rows) = 2

\* C9. Member segments are terminal: a signature decomposes to at most one
\* Member segment, its last; every child stored under a member label is a
\* Leaf, every Leaf is stored under a member label, and a Leaf has no
\* children.
MemberSegmentsTerminal ==
    /\ \A e \in inserted : Len(MembersOf(e[1])) <= 1
    /\ \A n \in Below(root, <<>>) :
          startswith(n.key, MemberPrefix) <=> n.node.kind = "Leaf"
    /\ \A n \in Below(root, <<>>) :
          n.node.kind = "Leaf" => DOMAIN n.node = {"kind", "value"}

\* C10. Invariant 1: the root-to-Leaf paths and the inserted signatures are
\* in one-to-one correspondence: every path spells the segment sequence of
\* one inserted signature and ends in its value, every inserted signature
\* has one path, and no two inserted signatures have the same segment
\* sequence.
PathsAreSignatures ==
    LET paths == LeafPaths(root, <<>>)
        spelled == {[path |-> Elements(e[1]), value |-> e[2]] : e \in inserted}
    IN /\ {paths[i] : i \in DOMAIN paths} = spelled
       /\ Len(paths) = Cardinality(inserted)
       /\ Cardinality({entry.path : entry \in spelled}) = Cardinality(inserted)

\* Two signatures are in the trie, the last add was refused as a duplicate,
\* and the trie has two Leaves.
PathsAreSignaturesWitness ==
    /\ Cardinality(inserted) = 2
    /\ IsAdd /\ last.raised = Duplicate
    /\ Len(LeafPaths(root, <<>>)) = 2

====
